---- MODULE Spec2Model ----
(***************************************************************************)
(* HDBDataProcessor (src/data_processor.py) and the query routes of        *)
(* src/api/app.py as a state machine: construction (API fetch, cleaning,   *)
(* cache save, cache load, fallback) followed by the read-only queries.    *)
(* Spec is the whole processor against a remote source that answers a      *)
(* bounded number of requests; CleanSpec is the cleaning pipeline on raw   *)
(* tables of many shapes; LiveSpec is construction against a source that   *)
(* answers every request, with the fetch loop weakly fair.                 *)
(***************************************************************************)
EXTENDS Integers, Sequences, FiniteSets, TLC

(***************************************************************************)
(* Bounds of the model.                                                    *)
(***************************************************************************)
\* records in one page of the remote source
MaxPageLen == 1
\* largest total a page response reports
MaxTotal == 2
\* requests the remote source answers in one construction
MaxRequests == 2
\* records the remote source delivers in one construction
MaxRecords == 2
\* query calls made after construction
MaxQueries == 1
\* rows of a raw table handed to the cleaning pipeline alone
MaxRows == 2

(***************************************************************************)
(* Values held in a table cell.  Python None, float NaN and pandas NaT are *)
(* all "null" to pandas (isna); strings are sequences of characters;       *)
(* numbers are fractions n/d in lowest terms; a Timestamp is year, month   *)
(* and the nanoseconds past the start of that month.                       *)
(***************************************************************************)
Null == [t |-> "null"]
Str(s) == [t |-> "str", s |-> s]
Inf == [t |-> "inf"]
Date(y, m, ns) == [t |-> "date", y |-> y, m |-> m, ns |-> ns]

RECURSIVE GCD(_, _)
GCD(a, b) == IF b = 0 THEN a ELSE GCD(b, a % b)

Abs(n) == IF n < 0 THEN -n ELSE n

\* the fraction n/d (d # 0) in lowest terms with a positive denominator
Reduced(n, d, g) == [t |-> "num", n |-> n \div g, d |-> d \div g]

Frac(n, d) ==
    IF d < 0 THEN Reduced(-n, -d, GCD(Abs(n), Abs(d)))
    ELSE Reduced(n, d, GCD(Abs(n), Abs(d)))

Num(n) == [t |-> "num", n |-> n, d |-> 1]

IsNull(v) == v.t = "null"
IsStr(v) == v.t = "str"
IsNum(v) == v.t = "num"
IsDate(v) == v.t = "date"

\* Python's None for self.df and total_records
None == [t |-> "none"]

(***************************************************************************)
(* Characters and the string methods the code uses.                        *)
(***************************************************************************)
Lower == <<"a","b","c","d","e","f","g","h","i","j","k","l","m",
           "n","o","p","q","r","s","t","u","v","w","x","y","z">>
Upper == <<"A","B","C","D","E","F","G","H","I","J","K","L","M",
           "N","O","P","Q","R","S","T","U","V","W","X","Y","Z">>
Digits == <<"0","1","2","3","4","5","6","7","8","9">>

InSeq(c, s) == \E i \in 1..Len(s) : s[i] = c
IndexOf(c, s) == CHOOSE i \in 1..Len(s) : s[i] = c
IsLower(c) == InSeq(c, Lower)
IsUpper(c) == InSeq(c, Upper)
IsCased(c) == IsLower(c) \/ IsUpper(c)
IsDigit(c) == InSeq(c, Digits)
IsSpace(c) == c = " "
ToUpper(c) == IF IsLower(c) THEN Upper[IndexOf(c, Lower)] ELSE c
ToLower(c) == IF IsUpper(c) THEN Lower[IndexOf(c, Upper)] ELSE c
DigitVal(c) == IndexOf(c, Digits) - 1

\* str.title(): a cased character is upper-cased when the character before
\* it is not cased, lower-cased otherwise
title(s) ==
    [i \in 1..Len(s) |->
        IF i = 1 \/ ~IsCased(s[i - 1]) THEN ToUpper(s[i]) ELSE ToLower(s[i])]

\* str.strip(): drop leading and trailing whitespace
Min(S) == CHOOSE i \in S : \A j \in S : i <= j
Max(S) == CHOOSE i \in S : \A j \in S : j <= i

Between(s, keep) == IF keep = {} THEN <<>> ELSE SubSeq(s, Min(keep), Max(keep))

\* strip that cuts the first and the last character, whatever they are
strip_both_ends(s) == IF Len(s) <= 2 THEN <<>> ELSE SubSeq(s, 2, Len(s) - 1)

strip(s) == Between(s, {i \in 1..Len(s) : ~IsSpace(s[i])})

AllDigits(s) == Len(s) > 0 /\ \A i \in 1..Len(s) : IsDigit(s[i])

RECURSIVE DigitsToInt(_)
DigitsToInt(s) ==
    IF Len(s) = 0 THEN 0
    ELSE 10 * DigitsToInt(SubSeq(s, 1, Len(s) - 1)) + DigitVal(s[Len(s)])

\* n >= 0 written with at least w digits
RECURSIVE IntToDigits(_, _)
IntToDigits(n, w) ==
    IF n < 10 /\ w <= 1 THEN <<Digits[n + 1]>>
    ELSE Append(IntToDigits(n \div 10, w - 1), Digits[(n % 10) + 1])

(***************************************************************************)
(* Arithmetic on cell values, as pandas computes it on numeric columns.    *)
(***************************************************************************)
\* a > k for a numeric cell; a comparison with NaN is False
GreaterThan(v, k) ==
    CASE IsNum(v) -> v.n > k * v.d
      [] v.t = "inf" -> TRUE
      [] OTHER -> FALSE

NumLE(a, b) == a.n * b.d <= b.n * a.d
NumAdd(a, b) == Frac(a.n * b.d + b.n * a.d, a.d * b.d)

\* a / b on float columns: x/0 is inf, 0/0 and anything with NaN is NaN
Divide(a, b) ==
    CASE IsNum(a) /\ IsNum(b) /\ b.n # 0 -> Frac(a.n * b.d, a.d * b.n)
      [] IsNum(a) /\ IsNum(b) /\ b.n = 0 /\ a.n # 0 -> Inf
      [] OTHER -> Null

\* the sequence s in ascending order of LE (stable): the element at
\* position i goes behind those below it and those equal to it before i
SortBy(s, LE(_, _)) ==
    LET before(j, i) == LE(s[j], s[i]) /\ (~LE(s[i], s[j]) \/ j < i)
        rank(i) == Cardinality({j \in 1..Len(s) : j # i /\ before(j, i)}) + 1
    IN [k \in 1..Len(s) |-> s[CHOOSE i \in 1..Len(s) : rank(i) = k]]

SortNums(s) == SortBy(s, NumLE)

\* Series.median(): nulls are skipped; NaN when nothing is left
Halve(v) == Frac(v.n, 2 * v.d)

Middle(nums, n) ==
    IF n = 0 THEN Null
    ELSE IF n % 2 = 1 THEN nums[(n + 1) \div 2]
    ELSE Halve(NumAdd(nums[n \div 2], nums[(n \div 2) + 1]))

median(vals) == Middle(SortNums(SelectSeq(vals, IsNum)), Len(SelectSeq(vals, IsNum)))

\* Series.mean() of a numeric column: nulls are skipped
RECURSIVE SumNums(_)
SumNums(s) == IF Len(s) = 0 THEN Num(0) ELSE NumAdd(Head(s), SumNums(Tail(s)))

Average(sum, n) == IF n = 0 THEN Null ELSE Frac(sum.n, sum.d * n)

mean(vals) == Average(SumNums(SelectSeq(vals, IsNum)), Len(SelectSeq(vals, IsNum)))

(***************************************************************************)
(* pandas conversions, cell by cell.                                       *)
(***************************************************************************)
\* pd.to_numeric(errors='coerce'): a numeral parses, any other text is NaN
to_numeric(v) ==
    CASE IsNum(v) -> v
      [] v.t = "inf" -> v
      [] IsStr(v) /\ AllDigits(v.s) -> Num(DigitsToInt(v.s))
      [] OTHER -> Null

IsYearMonth(s) ==
    /\ Len(s) = 7
    /\ AllDigits(SubSeq(s, 1, 4))
    /\ s[5] = "-"
    /\ AllDigits(SubSeq(s, 6, 7))
    /\ DigitsToInt(SubSeq(s, 6, 7)) \in 1..12

IsYear(s) == Len(s) = 4 /\ AllDigits(s)

\* pd.to_datetime(errors='coerce'): "YYYY-MM" and "YYYY" parse to the first
\* day of that month or year, a number is nanoseconds since 1970-01-01, any
\* other text is NaT
to_datetime(v) ==
    CASE IsDate(v) -> v
      [] IsStr(v) /\ IsYearMonth(v.s) ->
            Date(DigitsToInt(SubSeq(v.s, 1, 4)), DigitsToInt(SubSeq(v.s, 6, 7)), 0)
      [] IsStr(v) /\ IsYear(v.s) -> Date(DigitsToInt(v.s), 1, 0)
      [] IsNum(v) /\ v.n >= 0 -> Date(1970, 1, v.n \div v.d)
      [] OTHER -> Null

\* 99 - (current_year - Series.dt.year)
lease_remaining(current_year, v) ==
    IF IsDate(v) THEN Num(99 - (current_year - v.y)) ELSE Null

\* Series.str.title().str.strip(): a cell that is not a string becomes NaN
title_strip(v) == IF IsStr(v) THEN Str(strip(title(v.s))) ELSE Null

(***************************************************************************)
(* Tables.  self.df is None or a DataFrame: a set of column names and a    *)
(* sequence of rows, each a function from the column names to cells.       *)
(***************************************************************************)
IsNone(df) == df.t = "none"
Table(cols, rows) == [t |-> "df", cols |-> cols, rows |-> rows]

\* DataFrame.empty: no rows or no columns
empty(df) == Len(df.rows) = 0 \/ df.cols = {}

\* pd.DataFrame(list of dicts): the columns are the union of the keys, a key
\* a record lacks is NaN in its row
Reindex(records, cols) ==
    Table(cols,
          [i \in 1..Len(records) |->
              [c \in cols |-> IF c \in DOMAIN records[i] THEN records[i][c] ELSE Null]])

DataFrame(records) == Reindex(records, UNION {DOMAIN records[i] : i \in 1..Len(records)})

ColumnOf(rows, c) == [i \in 1..Len(rows) |-> rows[i][c]]

Column(df, c) == ColumnOf(df.rows, c)

\* df[c] = vals (a new or replaced column)
SetColumn(df, c, vals) ==
    Table(df.cols \cup {c},
          [i \in 1..Len(df.rows) |->
              [k \in df.cols \cup {c} |-> IF k = c THEN vals[i] ELSE df.rows[i][k]]])

MapColumn(df, c, F(_)) == SetColumn(df, c, [i \in 1..Len(df.rows) |-> F(df.rows[i][c])])

\* Series.fillna(value)
fillna(vals, value) == [i \in 1..Len(vals) |-> IF IsNull(vals[i]) THEN value ELSE vals[i]]

\* Series.str raises AttributeError unless the column holds objects: a
\* column of numbers (with or without NaN) has a numeric dtype
StrAccessorFails(vals) ==
    /\ \E i \in 1..Len(vals) : IsNum(vals[i]) \/ IsDate(vals[i])
    /\ \A i \in 1..Len(vals) : ~IsStr(vals[i])

(***************************************************************************)
(* A method's outcome: the table it leaves in self.df, the exception it    *)
(* raises ("none" when it returns) and the messages it logs.               *)
(***************************************************************************)
Outcome(df, exc, log) == [df |-> df, exc |-> exc, log |-> log]

\* the exceptions an "except Exception" clause catches (every class the
\* components raise derives from Exception)
ExceptionClasses ==
    {"RequestException", "ValueError", "KeyError", "AttributeError", "TypeError", "OSError"}

(***************************************************************************)
(* Cleaning Pipeline: HDBDataProcessor._clean_data.  The column            *)
(* assignments change self.df in place, so a KeyError or AttributeError    *)
(* part-way leaves the columns converted so far in self.df.                *)
(***************************************************************************)
\* lines 137-141, one column: to_numeric, then fill the nulls with the median
fill_median(df, col, nums) == SetColumn(df, col, fillna(nums, median(nums)))

numeric_fill(df, col) == fill_median(df, col, Column(MapColumn(df, col, to_numeric), col))

\* line 154, on the converted column
set_lease_remaining(df, current_year) ==
    SetColumn(df, "lease_remaining",
              [i \in 1..Len(df.rows) |->
                  lease_remaining(current_year, df.rows[i]["lease_commence_date"])])

\* lines 150-155, the body of the try: without the column the lookup raises
\* KeyError before anything is assigned
lease_body(df, current_year) ==
    IF "lease_commence_date" \in df.cols
    THEN Outcome(set_lease_remaining(MapColumn(df, "lease_commence_date", to_datetime),
                                     current_year),
                 "none", <<"Calculated lease_remaining">>)
    ELSE Outcome(df, "KeyError", <<>>)

\* lease_handler without the except clause: the exception leaves the stage
lease_handler_reraise(r) == r

\* lines 156-158: "except Exception" logs and sets lease_remaining to NaN in
\* every row
lease_handler(r) ==
    IF r.exc \in ExceptionClasses
    THEN Outcome(SetColumn(r.df, "lease_remaining", [i \in 1..Len(r.df.rows) |-> Null]),
                 "none", r.log \o <<"Lease date error">>)
    ELSE r

\* lines 149-158: the lease stage
lease_stage(df, current_year) == lease_handler(lease_body(df, current_year))

\* outlier_mask without the test of the area
outlier_mask_price_only(row) == GreaterThan(row["resale_price"], 10000)

\* lines 166-169: keep the rows with resale_price > 10000 and floor_area_sqm > 20
outlier_mask(row) ==
    GreaterThan(row["resale_price"], 10000) /\ GreaterThan(row["floor_area_sqm"], 20)

filter_outliers(df) == Table(df.cols, SelectSeq(df.rows, outlier_mask))

\* lines 160-172: town names, then the outlier filter
clean_town(l, log) ==
    IF l.exc # "none" THEN Outcome(l.df, l.exc, log \o l.log)
    ELSE IF "town" \notin l.df.cols THEN Outcome(l.df, "KeyError", log \o l.log)
    ELSE IF StrAccessorFails(Column(l.df, "town"))
    THEN Outcome(l.df, "AttributeError", log \o l.log)
    ELSE Outcome(filter_outliers(MapColumn(l.df, "town", title_strip)), "none",
                 log \o l.log \o <<"Data cleaning completed">>)

\* line 145
set_price_per_sqm(df) ==
    SetColumn(df, "price_per_sqm",
              [i \in 1..Len(df.rows) |->
                  Divide(df.rows[i]["resale_price"], df.rows[i]["floor_area_sqm"])])

\* lines 137-172, second turn of the loop over the two numeric columns on
clean_area(df, current_year, log) ==
    IF "floor_area_sqm" \notin df.cols THEN Outcome(df, "KeyError", log)
    ELSE clean_town(lease_stage(set_price_per_sqm(numeric_fill(df, "floor_area_sqm")),
                                current_year), log)

\* lines 137-172, from the first turn of that loop on
clean_price(df, current_year, log) ==
    IF "resale_price" \notin df.cols THEN Outcome(df, "KeyError", log)
    ELSE clean_area(numeric_fill(df, "resale_price"), current_year, log)

\* _clean_data that returns at once
_clean_data_skipped(df, current_year) == Outcome(df, "none", <<>>)

_clean_data(df, current_year) ==
    IF IsNone(df) \/ empty(df) THEN Outcome(df, "none", <<"No data to clean">>)
    ELSE IF "month" \notin df.cols THEN Outcome(df, "KeyError", <<"Starting data cleaning">>)
    ELSE clean_price(MapColumn(df, "month", to_datetime), current_year,
                     <<"Starting data cleaning">>)

(***************************************************************************)
(* Sample strategy: HDBDataProcessor._generate_sample_data.                *)
(***************************************************************************)
sample ==
    <<[month |-> Str(<<"2","0","2","3","-","0","1">>),
       town |-> Str(<<"A","n","g"," ","M","o"," ","K","i","o">>),
       resale_price |-> Num(400000),
       floor_area_sqm |-> Num(80),
       flat_type |-> Str(<<"4"," ","R","O","O","M">>),
       lease_commence_date |-> Num(1985)],
      [month |-> Str(<<"2","0","2","3","-","0","2">>),
       town |-> Str(<<"B","e","d","o","k">>),
       resale_price |-> Num(420000),
       floor_area_sqm |-> Num(85),
       flat_type |-> Str(<<"5"," ","R","O","O","M">>),
       lease_commence_date |-> Num(1990)]>>

\* the outcome r with the messages logged before it
Logged(before, r) == Outcome(r.df, r.exc, before \o r.log)

_generate_sample_data(current_year) ==
    Logged(<<"GENERATING SAMPLE DATA">>, _clean_data(DataFrame(sample), current_year))

(***************************************************************************)
(* Cache Store.  The file at cache_file is absent, or holds a table in one *)
(* of the two formats, or holds bytes that no reader accepts.              *)
(***************************************************************************)
NoFile == [exists |-> FALSE]
File(fmt, content) == [exists |-> TRUE, fmt |-> fmt, content |-> content]
Garbage == [exists |-> TRUE, fmt |-> "garbage"]

\* str.endswith
endswith(s, suffix) ==
    Len(s) >= Len(suffix) /\ SubSeq(s, Len(s) - Len(suffix) + 1, Len(s)) = suffix

DotParquet == <<".","p","a","r","q","u","e","t">>
DotCsv == <<".","c","s","v">>

\* a Timestamp as DataFrame.to_csv writes it
FormatDate(v) ==
    LET day == IntToDigits(v.y, 4) \o <<"-">> \o IntToDigits(v.m, 2) \o <<"-","0","1">>
    IN IF v.ns = 0 THEN day
       ELSE day \o <<" ","0","0",":","0","0",":","0","0",".">> \o IntToDigits(v.ns, 9)

\* DataFrame.to_csv(index=False), cell by cell: NaN is the empty field, a
\* Timestamp is its text, a number is the numeral that reads back as the
\* same number
csv_field(v) ==
    CASE IsNull(v) -> Str(<<>>)
      [] IsDate(v) -> Str(FormatDate(v))
      [] OTHER -> v

to_csv(df) ==
    Table(df.cols, [i \in 1..Len(df.rows) |-> [c \in df.cols |-> csv_field(df.rows[i][c])]])

IsNumeral(v) == IsNum(v) \/ v.t = "inf" \/ (IsStr(v) /\ AllDigits(v.s))
IsEmptyField(v) == IsStr(v) /\ v.s = <<>>

\* pd.read_csv: an empty field is NaN; a column whose other fields are all
\* numerals is numeric, any other column holds the fields as text
csv_text(v) == IF IsNum(v) /\ v.d = 1 /\ v.n >= 0 THEN Str(IntToDigits(v.n, 1)) ELSE v

NumericColumns(text) ==
    {c \in text.cols : \A i \in 1..Len(text.rows) :
                           IsEmptyField(text.rows[i][c]) \/ IsNumeral(text.rows[i][c])}

parse_field(v, numeric) ==
    IF IsEmptyField(v) THEN Null
    ELSE IF numeric THEN to_numeric(v)
    ELSE csv_text(v)

parse_fields(text, numeric) ==
    Table(text.cols,
          [i \in 1..Len(text.rows) |->
              [c \in text.cols |-> parse_field(text.rows[i][c], c \in numeric)]])

read_csv(text) == parse_fields(text, NumericColumns(text))

\* HDBDataProcessor._load_from_cache, lines 91-104: the body of the try
load_body(df, cache_file, file) ==
    IF file.exists
    THEN IF endswith(cache_file, DotParquet)
         THEN IF file.fmt = "parquet"
              THEN Outcome(file.content, "none", <<"Loading data from cache", "Cache loaded">>)
              ELSE Outcome(df, "OSError", <<"Loading data from cache">>)
         ELSE IF endswith(cache_file, DotCsv)
         THEN IF file.fmt = "csv"
              THEN Outcome(read_csv(file.content), "none",
                           <<"Loading data from cache", "Cache loaded">>)
              ELSE Outcome(df, "ValueError", <<"Loading data from cache">>)
         ELSE Outcome(df, "ValueError", <<"Loading data from cache">>)
    ELSE Outcome(df, "none", <<"No cache file found">>)

\* HDBDataProcessor._load_from_cache: "except Exception" logs and returns
load_handler(r) ==
    IF r.exc \in ExceptionClasses
    THEN Outcome(r.df, "none", r.log \o <<"Cache load failed">>)
    ELSE r

_load_from_cache(df, cache_file, file) == load_handler(load_body(df, cache_file, file))

Saved(file, exc, log) == [file |-> file, exc |-> exc, log |-> log]

\* save_body without the test of lines 110-111: an absent or empty table is
\* handed to the writer like any other
save_body_unguarded(df, cache_file, file, io_ok, torn) ==
    IF ~io_ok
    THEN Saved(IF torn THEN Garbage ELSE file, "OSError", <<"Saving cache">>)
    ELSE IF endswith(cache_file, DotParquet)
    THEN Saved(File("parquet", df), "none", <<"Saving cache">>)
    ELSE Saved(File("csv", IF IsNone(df) THEN df ELSE to_csv(df)), "none", <<"Saving cache">>)

\* HDBDataProcessor._save_cache, lines 110-120: nothing is written for an
\* absent or empty table; a writer that raises (io_ok false) leaves the old
\* file or a truncated one (torn)
save_body(df, cache_file, file, io_ok, torn) ==
    IF IsNone(df) \/ empty(df) THEN Saved(file, "none", <<>>)
    ELSE IF ~io_ok
    THEN Saved(IF torn THEN Garbage ELSE file, "OSError", <<"Saving cache">>)
    ELSE IF endswith(cache_file, DotParquet)
    THEN Saved(File("parquet", df), "none", <<"Saving cache">>)
    ELSE Saved(File("csv", to_csv(df)), "none", <<"Saving cache">>)

\* save_handler without the except clause: the writer's exception leaves
\* _save_cache
save_handler_reraise(r) == r

\* lines 122-123: "except Exception" logs and returns
save_handler(r) ==
    IF r.exc \in ExceptionClasses
    THEN Saved(r.file, "none", r.log \o <<"Cache save failed">>)
    ELSE r

_save_cache(df, cache_file, file, io_ok, torn) ==
    save_handler(save_body(df, cache_file, file, io_ok, torn))

(***************************************************************************)
(* Record Fetcher: one turn of the "while True" loop of _load_from_api.    *)
(* The remote source answers a request with a transport error, with a body *)
(* lacking the result/records envelope, or with a page: its records and,   *)
(* when the envelope carries it, the total.                                *)
(***************************************************************************)
TransportError == [kind |-> "error"]
InvalidEnvelope == [kind |-> "invalid"]
Page(total, records) == [kind |-> "page", total |-> total, records |-> records]

FetchState(all_records, offset, total_records) ==
    [all_records |-> all_records, offset |-> offset, total_records |-> total_records]

\* loop_handler with "offset >= 0" for "offset > 0": an error never leaves
\* the loop
loop_handler_always_partial(st, e) ==
    IF e \in {"RequestException", "ValueError"}
    THEN [st |-> st, next |-> "break", exc |-> "none",
          log |-> <<"API error", "Returning partial data">>]
    ELSE [st |-> st, next |-> "raise", exc |-> e, log |-> <<>>]

\* lines 77-83: requests.RequestException and ValueError are caught in the
\* loop; with offset > 0 the loop ends with what it has, otherwise the
\* exception is raised again
loop_handler(st, e) ==
    IF e \in {"RequestException", "ValueError"}
    THEN IF st.offset > 0
         THEN [st |-> st, next |-> "break", exc |-> "none",
               log |-> <<"API error", "Returning partial data">>]
         ELSE [st |-> st, next |-> "raise", exc |-> e, log |-> <<"API error">>]
    ELSE [st |-> st, next |-> "raise", exc |-> e, log |-> <<>>]

\* page_taken with "offset > total_records" for "offset >= total_records"
page_taken_strict(st) ==
    [st |-> st,
     next |-> IF st.offset > st.total_records.n THEN "break" ELSE "continue",
     exc |-> "none",
     log |-> <<>>]

\* lines 71-75: the loop ends once offset >= total_records
page_taken(st) ==
    [st |-> st,
     next |-> IF st.offset >= st.total_records.n THEN "break" ELSE "continue",
     exc |-> "none",
     log |-> <<>>]

\* lines 53-75: the body of the try
fetch_page(st, resp) ==
    IF resp.kind = "error" THEN loop_handler(st, "RequestException")
    ELSE IF resp.kind = "invalid" THEN loop_handler(st, "ValueError")
    ELSE IF IsNone(st.total_records) /\ IsNone(resp.total) THEN loop_handler(st, "KeyError")
    ELSE page_taken(FetchState(st.all_records \o resp.records,
                               st.offset + Len(resp.records),
                               IF IsNone(st.total_records) THEN resp.total
                               ELSE st.total_records))

(***************************************************************************)
(* Fallback Orchestrator: HDBDataProcessor.__init__ and                    *)
(* _fallback_procedure.                                                    *)
(***************************************************************************)
\* first_strategy with the use_api test dropped
first_strategy_ignores_flag(use_api) == "api"

\* lines 26-33: the strategy __init__ starts with
first_strategy(use_api) == IF use_api THEN "api" ELSE "cache"

\* init_handler catching only what the fetcher's loop catches
init_handler_narrow(e) ==
    IF e \in {"RequestException", "ValueError"} THEN "fallback" ELSE "raised"

\* lines 35-38: "except Exception" of __init__ runs the fallback; anything
\* else leaves the constructor
init_handler(e) == IF e \in ExceptionClasses THEN "fallback" ELSE "raised"

\* after_step without the try of __init__ leaving at the exception: the
\* next statement runs whatever the step did
after_step_ignores_exception(e, next) == next

\* the step after one that returned (next) or raised e inside the try
after_step(e, next) == IF e = "none" THEN next ELSE init_handler(e)

\* lines 176-181: a cache load, and the sample data when the load raises
\* (the bare except catches everything)
fallback_handler(r, current_year) ==
    IF r.exc = "none" THEN r
    ELSE Logged(r.log \o <<"Cache load failed, generating sample data">>,
                _generate_sample_data(current_year))

_fallback_procedure(df, cache_file, file, current_year) ==
    Logged(<<"Primary methods failed, trying cache...">>,
           fallback_handler(_load_from_cache(df, cache_file, file), current_year))

(***************************************************************************)
(* Query Layer: the get_* methods and the /heatmap route.                  *)
(***************************************************************************)
\* characters in code-point order
Ascii == <<" ", "-", ".">> \o Digits \o <<":">> \o Upper \o Lower
Code(c) == IndexOf(c, Ascii)

\* a <= b for Python strings
RECURSIVE StrLE(_, _)
StrLE(a, b) ==
    IF Len(a) = 0 THEN TRUE
    ELSE IF Len(b) = 0 THEN FALSE
    ELSE IF Code(Head(a)) # Code(Head(b)) THEN Code(Head(a)) < Code(Head(b))
    ELSE StrLE(Tail(a), Tail(b))

DateLE(a, b) ==
    \/ a.y < b.y
    \/ a.y = b.y /\ a.m < b.m
    \/ a.y = b.y /\ a.m = b.m /\ a.ns <= b.ns

\* the order of sort keys of one type
KeyLE(a, b) ==
    CASE IsStr(a) /\ IsStr(b) -> StrLE(a.s, b.s)
      [] IsDate(a) /\ IsDate(b) -> DateLE(a, b)
      [] IsNum(a) /\ IsNum(b) -> NumLE(a, b)
      [] OTHER -> TRUE

\* a set as a sequence, in some order
RECURSIVE SetToSeq(_)
SetToSeq(S) ==
    IF S = {} THEN <<>>
    ELSE LET x == CHOOSE x \in S : TRUE IN <<x>> \o SetToSeq(S \ {x})

Values(vals) == {vals[i] : i \in 1..Len(vals)}

\* what a query returned (val) or raised (exc); shares tells whether the
\* returned object is self.df itself and not a new object
Result(op, exc, val) == [op |-> op, exc |-> exc, val |-> val, shares |-> FALSE]

\* sorted(list): raises TypeError when the list mixes strings with NaN or
\* numbers
sorted(op, u) ==
    IF Cardinality({v.t : v \in u}) > 1 THEN Result(op, "TypeError", <<>>)
    ELSE Result(op, "none", SortBy(SetToSeq(u), KeyLE))

\* sorted(df[col].unique().tolist()) if df is not None else []
sorted_unique(op, df, col) ==
    IF IsNone(df) THEN Result(op, "none", <<>>)
    ELSE IF col \notin df.cols THEN Result(op, "KeyError", <<>>)
    ELSE sorted(op, Values(Column(df, col)))

get_towns(df) == sorted_unique("get_towns", df, "town")

get_flat_types(df) == sorted_unique("get_flat_types", df, "flat_type")

InMonth(rows, m) == LET in_month(row) == row["month"] = m IN SelectSeq(rows, in_month)

\* lines 217-221: one row per month, null months dropped, in month order,
\* with the means of the three columns
monthly_rows(grp, m) ==
    [month |-> m,
     resale_price |-> mean(ColumnOf(grp, "resale_price")),
     price_per_sqm |-> mean(ColumnOf(grp, "price_per_sqm")),
     lease_remaining |-> mean(ColumnOf(grp, "lease_remaining"))]

monthly_avg(town_data, months) ==
    Table({"month", "resale_price", "price_per_sqm", "lease_remaining"},
          [i \in 1..Len(months) |-> monthly_rows(InMonth(town_data, months[i]), months[i])])

group_by_month(town_data) ==
    monthly_avg(town_data,
                SortBy(SetToSeq({v \in Values(ColumnOf(town_data, "month")) :
                                     ~IsNull(v)}), KeyLE))

OfTown(rows, name) == LET match(row) == row["town"] = Str(name) IN SelectSeq(rows, match)

\* lines 209-223: the rows whose town is the title-cased argument
get_town_data(df, town) ==
    IF IsNone(df) THEN Result("get_town_data", "none", Table({}, <<>>))
    ELSE IF {"town", "month", "resale_price", "price_per_sqm", "lease_remaining"}
               \subseteq df.cols
    THEN Result("get_town_data", "none", group_by_month(OfTown(df.rows, title(town))))
    ELSE Result("get_town_data", "KeyError", Table({}, <<>>))

\* DataFrame.copy(): a new object with the same columns and rows
copy(df) == Table(df.cols, df.rows)

\* get_full_data returning self.df and not a copy of it
get_full_data_no_copy(df) ==
    IF IsNone(df) THEN Result("get_full_data", "none", Table({}, <<>>))
    ELSE [op |-> "get_full_data", exc |-> "none", val |-> df, shares |-> TRUE]

\* lines 225-227
get_full_data(df) ==
    Result("get_full_data", "none", IF IsNone(df) THEN Table({}, <<>>) ELSE copy(df))

\* app.py line 38: "not processor" for an HDBDataProcessor, which defines
\* neither __bool__ nor __len__
not_processor == FALSE

InGroup(rows, k) ==
    LET in_group(row) == row["town"] = k[1] /\ row["flat_type"] = k[2]
    IN SelectSeq(rows, in_group)

GroupLE(a, b) == IF a[1] = b[1] THEN KeyLE(a[2], b[2]) ELSE KeyLE(a[1], b[1])

group_medians(rows, keys) ==
    [i \in 1..Len(keys) |->
        [town |-> keys[i][1], flat_type |-> keys[i][2],
         price_per_sqm |-> median(ColumnOf(InGroup(rows, keys[i]), "price_per_sqm"))]]

\* groupby(['town', 'flat_type']): rows with a null key are dropped, the
\* groups come in key order
group_by_town_type(rows) ==
    group_medians(rows,
        SortBy(SetToSeq({<<rows[i]["town"], rows[i]["flat_type"]>> : i \in 1..Len(rows)}),
               GroupLE))

Keyed(rows) ==
    LET keyed(row) == ~IsNull(row["town"]) /\ ~IsNull(row["flat_type"])
    IN SelectSeq(rows, keyed)

\* app.py lines 36-46: processor.df.groupby(['town', 'flat_type']) with the
\* median of price_per_sqm; on None the attribute lookup raises
get_heatmap_data(df) ==
    IF not_processor THEN Result("get_heatmap_data", "none", <<>>)
    ELSE IF IsNone(df) THEN Result("get_heatmap_data", "AttributeError", <<>>)
    ELSE IF {"town", "flat_type", "price_per_sqm"} \subseteq df.cols
    THEN Result("get_heatmap_data", "none", group_by_town_type(Keyed(df.rows)))
    ELSE Result("get_heatmap_data", "KeyError", <<>>)

(***************************************************************************)
(* The environment: the records the remote source can return, the cache    *)
(* file found at construction, the calendar year, the queried towns.       *)
(***************************************************************************)
\* a record as the remote source delivers it: every value is text
GoodRecord ==
    [month |-> Str(<<"2","0","2","3","-","0","1">>),
     town |-> Str(<<" ","b","e","d","o","k"," ">>),
     resale_price |-> Str(<<"4","0","0","0","0","0">>),
     floor_area_sqm |-> Str(<<"8","0">>),
     flat_type |-> Str(<<"4"," ","R","O","O","M">>),
     lease_commence_date |-> Str(<<"1","9","8","5">>)]

\* a record the outlier filter removes
OutlierRecord ==
    [month |-> Str(<<"2","0","2","3","-","0","2">>),
     town |-> Str(<<"B","E","D","O","K">>),
     resale_price |-> Str(<<"9","0","0","0">>),
     floor_area_sqm |-> Str(<<"8","5">>),
     flat_type |-> Str(<<"5"," ","R","O","O","M">>),
     lease_commence_date |-> Str(<<"1","9","9","0">>)]

\* a record with a malformed price and without town and lease_commence_date
PartialRecord ==
    [month |-> Str(<<"b","a","d">>),
     resale_price |-> Str(<<"b","a","d">>),
     floor_area_sqm |-> Str(<<"9","0">>),
     flat_type |-> Str(<<"4"," ","R","O","O","M">>)]

\* a record with none of the fields the pipeline reads
ForeignRecord == [flat_type |-> Null]

RawRecords == {GoodRecord, OutlierRecord, PartialRecord, ForeignRecord}

SeqsUpTo(S, n) == UNION {[1..k -> S] : k \in 0..n}

None_or_total == {None} \cup {Num(n) : n \in 0..MaxTotal}

\* the answers to one request while the source may deliver room more records
Responses(room) ==
    {TransportError, InvalidEnvelope}
        \cup {Page(total, records) :
                  total \in None_or_total,
                  records \in SeqsUpTo(RawRecords, IF room < MaxPageLen THEN room ELSE MaxPageLen)}

\* datetime.now().year when the pipeline runs
Years == {2026, 2027}

CachePaths ==
    {<<"h">> \o DotParquet, <<"h">> \o DotCsv, <<"h",".","j","s","o","n">>}

\* the file at cache_file when construction starts: none, unreadable bytes,
\* the table an earlier construction saved, or a table put there by hand
SavedTable == _clean_data(DataFrame(<<GoodRecord, PartialRecord>>), 2025).df

InitialFiles ==
    {NoFile, Garbage,
     File("parquet", SavedTable),
     File("csv", to_csv(SavedTable)),
     File("csv", to_csv(DataFrame(<<GoodRecord, OutlierRecord>>))),
     File("csv", Table({"town", "flat_type"}, <<>>))}

QueryTowns == {<<"b","e","d","o","k">>, <<"y","i","s","h","u","n">>}

\* raw records for the cleaning pipeline: well-formed; a price at or below
\* the limit, as a JSON number; a malformed month and price; an area at or
\* below the limit; a malformed area
LowPriceRecord ==
    [month |-> Str(<<"2","0","2","3","-","0","2">>),
     town |-> Str(<<"A","N","G"," ","M","O"," ","K","I","O">>),
     resale_price |-> Num(9000),
     floor_area_sqm |-> Str(<<"8","5">>),
     flat_type |-> Str(<<"5"," ","R","O","O","M">>),
     lease_commence_date |-> Str(<<"1","9","9","0">>)]

BadPriceRecord ==
    [month |-> Str(<<"b","a","d">>),
     town |-> Str(<<" ","b","e","d","o","k"," ">>),
     resale_price |-> Str(<<"b","a","d">>),
     floor_area_sqm |-> Num(80),
     flat_type |-> Str(<<"4"," ","R","O","O","M">>),
     lease_commence_date |-> Str(<<"1","9","8","5">>)]

SmallAreaRecord ==
    [month |-> Str(<<"2","0","2","3","-","0","3">>),
     town |-> Str(<<"y","i","s","h","u","n"," "," ">>),
     resale_price |-> Str(<<"5","0","0","0","0","0">>),
     floor_area_sqm |-> Str(<<"1","5">>),
     flat_type |-> Str(<<"3"," ","R","O","O","M">>),
     lease_commence_date |-> Num(1985)]

BadAreaRecord ==
    [month |-> Str(<<"2","0","2","3","-","0","1">>),
     town |-> Str(<<"b","e","d","o","k","-","n","o","r","t","h">>),
     resale_price |-> Str(<<"4","2","0","0","0","0">>),
     floor_area_sqm |-> Str(<<"n","/","a">>),
     flat_type |-> Str(<<"4"," ","R","O","O","M">>),
     lease_commence_date |-> Str(<<"n","/","a">>)]

FullRecords == {GoodRecord, LowPriceRecord, BadPriceRecord, SmallAreaRecord, BadAreaRecord}

\* the record without the fields in missing ("any field may be missing")
Without(record, missing) == [f \in DOMAIN record \ missing |-> record[f]]

MissingFields == {{}, {"lease_commence_date"}, {"town"}}

CleanRecords == {Without(record, missing) : record \in FullRecords, missing \in MissingFields}

(***************************************************************************)
(* State.                                                                  *)
(***************************************************************************)
VARIABLES
    use_api,        \* constructor argument
    cache_file,     \* self.cache_file
    df,             \* self.df
    file,           \* the file at cache_file
    pc,             \* where construction stands: "api", "clean", "save",
                    \* "cache", "fallback", "done", or "raised" when an
                    \* exception left the constructor
    all_records,    \* locals of _load_from_api
    offset,
    total_records,
    nreq,           \* requests.get calls issued
    log,            \* the messages logged so far
    raised,         \* the exception that left the constructor, or "none"
    ret,            \* what the last query returned or raised
    arg,            \* the town the last query was given, if any
    nq,             \* queries made
    pages,          \* history: the records of each valid page answered
    errors          \* history: the components whose code raised

vars == <<use_api, cache_file, df, file, pc, all_records, offset, total_records,
          nreq, log, raised, ret, arg, nq, pages, errors>>

NoResult == Result("none", "none", <<>>)

Init ==
    /\ use_api \in BOOLEAN
    /\ cache_file \in CachePaths
    /\ file \in InitialFiles
    /\ df = None
    /\ pc = first_strategy(use_api)
    /\ all_records = <<>>
    /\ offset = 0
    /\ total_records = None
    /\ nreq = 0
    /\ log = <<IF pc = "api" THEN "Attempting API data load" ELSE "Loading from cache">>
    /\ raised = "none"
    /\ ret = NoResult
    /\ arg = <<>>
    /\ nq = 0
    /\ pages = <<>>
    /\ errors = <<>>

\* a step of the try block of __init__ ends: it returned, or it raised e
Failed(component, e) == IF e = "none" THEN <<>> ELSE <<component>>

Step(e, next, steplog) ==
    /\ pc' = after_step(e, next)
    /\ log' = log \o steplog
                  \o (IF e # "none" /\ after_step(e, next) = "fallback"
                      THEN <<"Initialization failed">> ELSE <<>>)
    /\ raised' = IF after_step(e, next) = "raised" THEN e ELSE raised

\* one request of _load_from_api and what the loop does with the answer;
\* with counted the remote source answers MaxRequests requests and no more;
\* without it the source answers every request, nreq counts them modulo
\* MaxRequests + 1 and the page history keeps the first MaxRequests pages
Request(counted) ==
    /\ pc = "api"
    /\ counted => nreq < MaxRequests
    /\ \E resp \in Responses(MaxRecords - Len(all_records)) :
       \E r \in {fetch_page(FetchState(all_records, offset, total_records), resp)} :
             /\ nreq' = IF counted THEN nreq + 1 ELSE (nreq + 1) % (MaxRequests + 1)
             /\ all_records' = r.st.all_records
             /\ offset' = r.st.offset
             /\ total_records' = r.st.total_records
             /\ pages' = IF resp.kind = "page" /\ r.exc = "none" /\ Len(pages) < MaxRequests
                         THEN Append(pages, resp.records) ELSE pages
             /\ errors' = errors \o Failed("fetch", r.exc)
             /\ IF r.next = "continue"
                THEN /\ Step("none", "api", r.log)
                     /\ df' = df
                ELSE IF r.next = "break"
                THEN /\ Step("none", "clean", r.log \o <<"API data loaded">>)
                     /\ df' = DataFrame(r.st.all_records)
                ELSE /\ Step(r.exc, "clean", r.log)
                     /\ df' = df
    /\ UNCHANGED <<use_api, cache_file, file, ret, arg, nq>>

LoadFromApi == Request(TRUE)

CleanData ==
    /\ pc = "clean"
    /\ \E current_year \in Years :
       \E r \in {_clean_data(df, current_year)} :
             /\ df' = r.df
             /\ Step(r.exc, "save", r.log)
             /\ errors' = errors \o Failed("clean", r.exc)
    /\ UNCHANGED <<use_api, cache_file, file, all_records, offset, total_records,
                   nreq, ret, arg, nq, pages>>

SaveCache ==
    /\ pc = "save"
    /\ \E io_ok \in BOOLEAN, torn \in BOOLEAN :
       \E r \in {_save_cache(df, cache_file, file, io_ok, torn)} :
             /\ file' = r.file
             /\ Step(r.exc, "done", r.log)
             /\ errors' = errors \o Failed("save",
                               save_body(df, cache_file, file, io_ok, torn).exc)
    /\ UNCHANGED <<use_api, cache_file, df, all_records, offset, total_records,
                   nreq, ret, arg, nq, pages>>

LoadFromCache ==
    /\ pc = "cache"
    /\ \E r \in {_load_from_cache(df, cache_file, file)} :
          /\ df' = r.df
          /\ Step(r.exc, "done", r.log)
          /\ errors' = errors \o Failed("load", load_body(df, cache_file, file).exc)
    /\ UNCHANGED <<use_api, cache_file, file, all_records, offset, total_records,
                   nreq, ret, arg, nq, pages>>

FallbackProcedure ==
    /\ pc = "fallback"
    /\ \E current_year \in Years :
       \E r \in {_fallback_procedure(df, cache_file, file, current_year)} :
             /\ df' = r.df
             /\ pc' = IF r.exc = "none" THEN "done" ELSE "raised"
             /\ raised' = r.exc
             /\ log' = log \o r.log
             /\ errors' = errors \o Failed("load", load_body(df, cache_file, file).exc)
    /\ UNCHANGED <<use_api, cache_file, file, all_records, offset, total_records,
                   nreq, ret, arg, nq, pages>>

\* a query of the constructed processor
Query(result, town) ==
    /\ pc = "done"
    /\ nq < MaxQueries
    /\ ret' = result
    /\ arg' = town
    /\ nq' = nq + 1
    /\ UNCHANGED <<use_api, cache_file, df, file, pc, all_records, offset,
                   total_records, nreq, log, raised, pages, errors>>

GetTowns == Query(get_towns(df), <<>>)
GetFlatTypes == Query(get_flat_types(df), <<>>)
GetTownData == \E town \in QueryTowns : Query(get_town_data(df, town), town)
GetFullData == Query(get_full_data(df), <<>>)
GetHeatmapData == Query(get_heatmap_data(df), <<>>)

\* the caller changes in place the table a query handed to it (it drops the
\* rows): self.df changes with it only when the two are one object
CallerModifies ==
    /\ pc = "done"
    /\ ret.op \in {"get_town_data", "get_full_data"}
    /\ ret.exc = "none"
    /\ ret.val.rows # <<>>
    /\ ret' = [ret EXCEPT !.val = Table(ret.val.cols, <<>>)]
    /\ df' = IF ret.shares THEN Table(df.cols, <<>>) ELSE df
    /\ UNCHANGED <<use_api, cache_file, file, pc, all_records, offset, total_records,
                   nreq, log, raised, arg, nq, pages, errors>>

Next ==
    \/ LoadFromApi
    \/ CleanData
    \/ SaveCache
    \/ LoadFromCache
    \/ FallbackProcedure
    \/ GetTowns
    \/ GetFlatTypes
    \/ GetTownData
    \/ GetFullData
    \/ GetHeatmapData
    \/ CallerModifies

Spec == Init /\ [][Next]_vars

(***************************************************************************)
(* The cleaning pipeline on its own: construction taken up at line 29,     *)
(* when _load_from_api has returned the records of one page.               *)
(***************************************************************************)
CleanInit ==
    /\ use_api = TRUE
    /\ cache_file = <<"h">> \o DotParquet
    /\ file = NoFile
    /\ all_records \in SeqsUpTo(CleanRecords, MaxRows)
    /\ df = DataFrame(all_records)
    /\ pc = "clean"
    /\ offset = Len(all_records)
    /\ total_records = Num(Len(all_records))
    /\ nreq = 1
    /\ log = <<"Attempting API data load", "API data loaded">>
    /\ raised = "none"
    /\ ret = NoResult
    /\ arg = <<>>
    /\ nq = 0
    /\ pages = <<all_records>>
    /\ errors = <<>>

CleanNext == CleanData

CleanSpec == CleanInit /\ [][CleanNext]_vars

(***************************************************************************)
(* Construction on the API strategy against a remote source that answers   *)
(* every request: "while True" goes round as long as no break and no       *)
(* exception ends it, and every requests.get returns or raises within its  *)
(* timeout, so the loop always takes its next step.                        *)
(***************************************************************************)
LoadFromApiUnbounded == Request(FALSE)

LiveInit == Init /\ use_api

LiveNext ==
    \/ LoadFromApiUnbounded
    \/ CleanData
    \/ SaveCache
    \/ FallbackProcedure

LiveSpec == LiveInit /\ [][LiveNext]_vars /\ WF_vars(LoadFromApiUnbounded)

(***************************************************************************)
(* Properties.                                                             *)
(***************************************************************************)
WasLogged(msg) == InSeq(msg, log)
Raised(component) == InSeq(component, errors)

\* the tables the sample strategy can leave
SampleTables == {_generate_sample_data(y).df : y \in Years}

\* what the sample strategy logs
SampleLogs == {_generate_sample_data(y).log : y \in Years}

\* a cache load was made by _fallback_procedure
CacheLoadAttempted ==
    /\ WasLogged("Primary methods failed, trying cache...")
    /\ WasLogged("No cache file found") \/ WasLogged("Loading data from cache")

CleaningMessages == {"Starting data cleaning", "No data to clean"}

RECURSIVE Flatten(_)
Flatten(ps) == IF Len(ps) = 0 THEN <<>> ELSE Head(ps) \o Flatten(Tail(ps))

UnsupportedPath == ~endswith(cache_file, DotParquet) /\ ~endswith(cache_file, DotCsv)

IsEmptyResult(r) ==
    IF r.op \in {"get_town_data", "get_full_data"} THEN empty(r.val) ELSE Len(r.val) = 0

\* C1: constructed with use_api false and no file at the cache path, the
\* processor ends with the table of the sample strategy: the two synthetic
\* rows, cleaned.
C1_SampleWhenCacheMissing ==
    (pc = "done" /\ ~use_api /\ ~file.exists) => df \in SampleTables

\* C2: when construction finishes the table is present and non-empty,
\* whatever the configuration, the remote source and the cache file do.
C2_TableNonEmptyAfterConstruction ==
    pc = "done" => (~IsNone(df) /\ ~empty(df))

\* C3: no exception leaves the constructor: whichever of the fetcher, the
\* cleaning pipeline, the cache save and the cache load raised, construction
\* goes on to the fallback or finishes.
C3_ConstructionNeverRaises ==
    /\ pc # "raised"
    /\ raised = "none"
    /\ errors # <<>> => pc \in {"fallback", "done"}

\* construction finished although the cleaning pipeline and then the cache
\* load raised
C3_Witness == pc = "done" /\ Raised("clean") /\ Raised("load")

\* C4: on an absent table every query returns an empty result and raises
\* nothing; get_town_data for a town that matches no row returns an empty
\* series and raises nothing.
C4_QueriesDegradeToEmpty ==
    /\ (ret.op # "none" /\ IsNone(df)) => (ret.exc = "none" /\ IsEmptyResult(ret))
    /\ ( /\ ret.op = "get_town_data"
         /\ ~IsNone(df)
         /\ {"town", "month", "resale_price", "price_per_sqm", "lease_remaining"}
                \subseteq df.cols
         /\ OfTown(df.rows, title(arg)) = <<>> )
       => (ret.exc = "none" /\ empty(ret.val))

\* C5 as stated: after a transport or validation error the fetch returns the
\* records of the earlier pages when at least one page had been retrieved,
\* and the error leaves the fetcher when no page had.
C5_PartialAfterAnyPage ==
    WasLogged("API error") =>
        IF Len(pages) >= 1
        THEN /\ WasLogged("Returning partial data")
             /\ ~Raised("fetch")
             /\ pc = "clean" => df = DataFrame(Flatten(pages))
        ELSE Raised("fetch") /\ ~WasLogged("Returning partial data")

\* C5 amended: after a transport or validation error the fetch returns the
\* records of the earlier pages when they hold at least one record
\* (offset > 0), and the error leaves the fetcher when they hold none.
C5_PartialAfterAnyRecord ==
    WasLogged("API error") =>
        IF Len(Flatten(pages)) >= 1
        THEN /\ WasLogged("Returning partial data")
             /\ ~Raised("fetch")
             /\ pc = "clean" => df = DataFrame(Flatten(pages))
        ELSE Raised("fetch") /\ ~WasLogged("Returning partial data")

\* a page of one record, then an error on the second request: the fetch
\* returned that page's record
C5_Witness ==
    /\ pc = "clean"
    /\ nreq = 2
    /\ Len(pages) = 1
    /\ Len(pages[1]) = 1
    /\ WasLogged("API error")
    /\ df = DataFrame(pages[1])

\* C6 as stated: on the API strategy an exception in the fetcher, the
\* cleaning pipeline or the cache save is followed by a cache load.
C6_AnyChainExceptionLoadsCache ==
    (pc = "done" /\ use_api /\ (Raised("fetch") \/ Raised("clean") \/ Raised("save")))
        => CacheLoadAttempted

\* C6 amended: an exception of the fetcher or the cleaning pipeline is
\* followed by a cache load; an exception of the writer in the cache save is
\* caught there, construction finishes with the table built from the API and
\* no cache load is made.
C6_FetchOrCleanExceptionLoadsCache ==
    /\ (Raised("fetch") \/ Raised("clean")) =>
           (pc \in {"fallback", "done"} /\ (pc = "done" => CacheLoadAttempted))
    /\ Raised("save") =>
           /\ pc = "done"
           /\ ~WasLogged("Primary methods failed, trying cache...")
           /\ WasLogged("Cache save failed")
           /\ ~IsNone(df) /\ ~empty(df)

\* the cleaning pipeline raised and the cache was loaded next
C6_Witness == pc = "done" /\ Raised("clean") /\ WasLogged("Cache loaded")

\* C7: when the cache load raises, the sample strategy runs and leaves the
\* cleaned synthetic table.
C7_LoadExceptionGoesToSample ==
    (pc = "done" /\ Raised("load")) =>
        (WasLogged("GENERATING SAMPLE DATA") /\ df \in SampleTables)

\* C8 as stated: after every successful load (API, cache, sample) the
\* cleaning pipeline runs before construction finishes.
C8_CleaningAfterEveryLoad ==
    pc = "done" =>
        \A i \in 1..Len(log) :
            log[i] \in {"API data loaded", "Cache loaded", "GENERATING SAMPLE DATA"} =>
                \E j \in (i + 1)..Len(log) : log[j] \in CleaningMessages

\* C8 amended: the cleaning pipeline runs right after a successful API fetch,
\* and the sample generation the fallback would call runs it too; after a
\* cache load it does not run, and the table is the one read from the file.
C8_CleaningAfterApiAndSample ==
    /\ \A i \in 1..Len(log) :
          (log[i] = "API data loaded" /\ pc # "clean") =>
              (i < Len(log) /\ log[i + 1] \in CleaningMessages)
    /\ pc = "fallback" =>
           \A l \in SampleLogs : \E j \in 2..Len(l) : l[j] \in CleaningMessages
    /\ \A i \in 1..Len(log) :
          log[i] = "Cache loaded" =>
              /\ \A j \in (i + 1)..Len(log) : log[j] \notin CleaningMessages
              /\ pc = "done" => df = load_body(df, cache_file, file).df

\* the API table was cleaned, the cleaning raised, and the table read from
\* the cache is served
C8_Witness == pc = "done" /\ WasLogged("API data loaded") /\ WasLogged("Cache loaded")

\* C9: on a path with an unrecognised extension, load of an existing file
\* fails with the unsupported-format error, and save does not fail and writes
\* delimited text.
C9_UnsupportedFormat ==
    UnsupportedPath =>
        /\ (pc \in {"cache", "fallback"} /\ file.exists) =>
               _load_from_cache(df, cache_file, file).exc = "ValueError"
        /\ (pc = "save" /\ ~IsNone(df) /\ ~empty(df)) =>
               /\ _save_cache(df, cache_file, file, TRUE, FALSE).exc = "none"
               /\ _save_cache(df, cache_file, file, TRUE, FALSE).file
                      = File("csv", to_csv(df))

\* C10: with use_api false construction starts at the cache load and no
\* request is ever issued.
C10_NoRequestWithoutNetwork ==
    ~use_api =>
        /\ nreq = 0
        /\ all_records = <<>>
        /\ pc \in {"cache", "fallback", "done"}
        /\ log[1] = "Loading from cache"
        /\ ~WasLogged("Attempting API data load")

\* construction without the network finished after a failed cache load
C10_Witness == ~use_api /\ pc = "done" /\ Raised("load") /\ nreq = 0

\* C11: the cache save is a no-op for an absent table and for a table without
\* rows (the API returned no record, or the outlier filter removed every
\* fetched row): it raises nothing, logs nothing and leaves the file at the
\* cache path as it was, and construction finishes.
C11_SaveNoOpWithoutRows ==
    /\ [](\A io_ok \in BOOLEAN, torn \in BOOLEAN :
              (IsNone(df) \/ empty(df)) =>
                  _save_cache(df, cache_file, file, io_ok, torn) = Saved(file, "none", <<>>))
    /\ [][(pc = "save" /\ (IsNone(df) \/ empty(df))) =>
              (file' = file /\ pc' = "done" /\ raised' = "none" /\ log' = log
                  /\ errors' = errors)]_vars

\* the outlier filter removed every fetched row, the save ran on the empty
\* table and the file found at the cache path is still there
C11_Witness ==
    /\ pc = "done"
    /\ use_api
    /\ errors = <<>>
    /\ Len(all_records) > 0
    /\ ~IsNone(df)
    /\ Len(df.rows) = 0
    /\ file \in InitialFiles \ {NoFile}
    /\ ~WasLogged("Saving cache")

\* C12: after a save that wrote the table to a path of one of the two
\* supported formats, a load of that path succeeds and gives back the saved
\* table: the same rows in the same order with the same cell values, the
\* Timestamps of month and lease_commence_date included.
C12_SaveLoadRoundTrip ==
    ( /\ pc = "done"
      /\ WasLogged("Saving cache")
      /\ ~WasLogged("Cache save failed")
      /\ ~UnsupportedPath )
    => /\ load_body(None, cache_file, file).exc = "none"
       /\ load_body(None, cache_file, file).df = df

\* the raw table the cleaning pipeline was given
RawTable == DataFrame(all_records)

\* the cleaning pipeline ran to its end on a table with rows
CleanCompleted == pc = "save" /\ WasLogged("Data cleaning completed")

\* C13: every row of the table the cleaning pipeline produces has
\* resale_price > 10000 and floor_area_sqm > 20; no row keeps a null price or
\* area, so the rows of a column without any numeric value are all removed.
C13_CleanedRowsPassOutlierFilter ==
    CleanCompleted =>
        /\ \A i \in 1..Len(df.rows) :
              /\ GreaterThan(df.rows[i]["resale_price"], 10000)
              /\ GreaterThan(df.rows[i]["floor_area_sqm"], 20)
              /\ ~IsNull(df.rows[i]["resale_price"])
              /\ ~IsNull(df.rows[i]["floor_area_sqm"])
        /\ (\A i \in 1..Len(all_records) : IsNull(to_numeric(RawTable.rows[i]["resale_price"])))
               => df.rows = <<>>
        /\ (\A i \in 1..Len(all_records) : IsNull(to_numeric(RawTable.rows[i]["floor_area_sqm"])))
               => df.rows = <<>>

\* of two raw rows the filter removed one and kept the other
C13_Witness ==
    /\ CleanCompleted
    /\ Len(all_records) = 2
    /\ Len(df.rows) = 1
    /\ \E i \in 1..2 : ~GreaterThan(to_numeric(RawTable.rows[i]["floor_area_sqm"]), 20)

Except(t, dropped) ==
    [i \in 1..Len(t.rows) |-> [c \in t.cols \ dropped |-> t.rows[i][c]]]

\* C15: the cleaning pipeline applied to the table it has just left keeps
\* the same rows and the same values of town, resale_price and
\* floor_area_sqm (of every column but lease_remaining, which follows the
\* calendar year): the conversions, the median fill, the town
\* normalization and the outlier filter change nothing the second time.
C15_CleanTwiceSameAsOnce ==
    pc \in {"save", "fallback"} =>
        \A current_year \in Years :
            /\ _clean_data(df, current_year).exc = (IF pc = "save" THEN "none" ELSE "KeyError")
            /\ _clean_data(df, current_year).df.cols = df.cols
            /\ Except(_clean_data(df, current_year).df, {"lease_remaining"})
                   = Except(df, {"lease_remaining"})

\* the first run filled a missing price with the median, normalized a town
\* name and removed a row
C15_Witness ==
    /\ CleanCompleted
    /\ df.rows # <<>>
    /\ Len(df.rows) < Len(all_records)
    /\ \E i \in 1..Len(all_records) : IsNull(to_numeric(RawTable.rows[i]["resale_price"]))
    /\ \E i \in 1..Len(all_records) :
           /\ IsStr(RawTable.rows[i]["town"])
           /\ title_strip(RawTable.rows[i]["town"]) # RawTable.rows[i]["town"]

\* the total the loop holds once it has taken the page resp in state st
TotalAfter(st, resp) == fetch_page(st, resp).st.total_records

\* C16: the fetcher takes the total from the first page it accepts and keeps
\* it whatever later pages report; a request is issued only while the
\* accumulated count is below that total, and a fetch that returns without
\* having met an error holds at least that many records.
C16_TotalFixedByFirstPage ==
    /\ IsNone(total_records) <=> pages = <<>>
    /\ pc = "api" =>
           /\ ~IsNone(total_records) => offset < total_records.n
           /\ \A resp \in Responses(MaxRecords - Len(all_records)) :
                  (resp.kind = "page"
                      /\ fetch_page(FetchState(all_records, offset, total_records), resp).exc
                             = "none")
                  => TotalAfter(FetchState(all_records, offset, total_records), resp)
                         = (IF IsNone(total_records) THEN resp.total ELSE total_records)
    /\ (WasLogged("API data loaded") /\ ~WasLogged("API error")) =>
           /\ offset = Len(all_records)
           /\ Len(all_records) >= total_records.n
           /\ pc # "api"

\* two pages of one record each against a total of two: the fetch returned
\* after the second request
C16_Witness ==
    /\ pc = "clean"
    /\ nreq = 2
    /\ Len(pages) = 2
    /\ total_records = Num(2)
    /\ Len(all_records) = 2
    /\ ~WasLogged("API error")

\* the lookup of lease_commence_date raises: no raw record has the field
LeaseStageRaises == Len(all_records) > 0 /\ "lease_commence_date" \notin RawTable.cols

\* the records with a lease_commence_date given to each
WithLease(records) ==
    [i \in 1..Len(records) |->
        [f \in DOMAIN records[i] \cup {"lease_commence_date"} |->
            IF f = "lease_commence_date" THEN Str(<<"1","9","8","5">>) ELSE records[i][f]]]

\* C17: when the lease stage raises, the cleaning pipeline still runs to its
\* end: lease_remaining is null in every row, the town names are normalized
\* and the outlier filter is applied, and every other column is what it
\* would be had the lease stage not raised.
C17_LeaseErrorIsolated ==
    (pc \in {"save", "fallback"} /\ LeaseStageRaises /\ "town" \in RawTable.cols) =>
        /\ pc = "save"
        /\ errors = <<>>
        /\ WasLogged("Lease date error")
        /\ WasLogged("Data cleaning completed")
        /\ "lease_remaining" \in df.cols
        /\ \A i \in 1..Len(df.rows) : IsNull(df.rows[i]["lease_remaining"])
        /\ \A current_year \in Years :
               Except(df, {"lease_remaining"})
                   = Except(_clean_data(DataFrame(WithLease(all_records)), current_year).df,
                            {"lease_remaining", "lease_commence_date"})

\* the lease stage raised, and of two rows the filter removed one and the
\* town of the other was normalized
C17_Witness ==
    /\ pc = "save"
    /\ LeaseStageRaises
    /\ Len(all_records) = 2
    /\ Len(df.rows) = 1
    /\ IsNull(df.rows[1]["lease_remaining"])
    /\ df.rows[1]["town"] = Str(<<"B","e","d","o","k">>)

\* C18: the file at the cache path changes only in the save that follows a
\* fetch and a cleaning that both returned, with a table that has rows; a
\* construction that starts at the cache strategy, or whose fetch or
\* cleaning raised, or that went to the fallback, never calls the writer.
C18_CacheWrittenOnlyAfterApiBuild ==
    /\ [][file' # file =>
              /\ pc = "save"
              /\ use_api
              /\ errors = <<>>
              /\ WasLogged("API data loaded")
              /\ ~IsNone(df) /\ ~empty(df)
              /\ ~WasLogged("Primary methods failed, trying cache...")]_vars
    /\ []((\/ ~use_api
           \/ Raised("fetch")
           \/ Raised("clean")
           \/ WasLogged("Primary methods failed, trying cache..."))
          => ~WasLogged("Saving cache"))

\* the cleaning of the fetched table raised, the cache was loaded, and the
\* file is one of those found at the start
C18_Witness ==
    /\ pc = "done"
    /\ use_api
    /\ Raised("clean")
    /\ WasLogged("Cache loaded")
    /\ df.rows # <<>>
    /\ file \in InitialFiles \ {NoFile}
    /\ ~WasLogged("Saving cache")

\* C19: the pagination loop ends whatever the remote source answers: the
\* fetch eventually returns its records or raises, also when valid pages
\* carry no record while the count is below the total.
C19_FetchLoopTerminates == <>(pc # "api")

\* a table the cleaning pipeline runs to its end on and leaves as it is
FullyCleaned(t) ==
    \E current_year \in Years :
        /\ _clean_data(t, current_year).exc = "none"
        /\ _clean_data(t, current_year).df = t

\* C20: a processor constructed with use_api true whose table was not read
\* from the cache serves no table or a fully cleaned one, never the fetched
\* table as the cleaning pipeline left it when it raised part-way.
C20_AbsentOrFullyCleaned ==
    (pc = "done" /\ use_api /\ ~WasLogged("Cache loaded")) =>
        (IsNone(df) \/ FullyCleaned(df))

====
